---- MODULE Spec2Model ----
(***************************************************************************)
(* NetBuddy (src/netbuddy.py): a process-wide session flag, start/quit,    *)
(* help, the four-probe connectivity test and its alias, and ping.         *)
(* Every call is made from one thread; a call that is in progress blocks   *)
(* the next one.  Console output and subprocess invocations of the call in *)
(* progress are recorded, in order, in `log`.                              *)
(***************************************************************************)
EXTENDS Integers, Sequences, FiniteSets

VARIABLES
    active,         \* NetBuddy.active (class attribute)
    name,           \* os.name of the host
    pc,             \* position of the call in progress / how the last call ended
    op,             \* the public operation called last
    arg,            \* the address argument of ping(address), "" otherwise
    entry_active,   \* value of NetBuddy.active when the call was entered
    cmd,            \* behaviour of the ping command during this step
    outcomes,       \* outcomes of the probes issued so far by this call
    success_count,  \* local of test_connection
    success_rate,   \* local of test_connection, -1 while not computed
    log,            \* prints and subprocess invocations of this call, in order
    result,         \* value returned by the call
    exc             \* exception the call raised

vars == <<active, name, pc, op, arg, entry_active, cmd, outcomes,
          success_count, success_rate, log, result, exc>>

----------------------------------------------------------------------------
(* Values *)

NoException == "none"
NoResult == "no value"
None == "None"
False == "False"
Instance == "NetBuddy instance"

NotStartedException == "NotStartedException"
NotWindowsException == "NotWindowsException"
MissingCommandException == "MissingCommandException"
CalledProcessError == "CalledProcessError"
FileNotFoundError == "FileNotFoundError"

\* os.name values: Windows and one other platform.
Platforms == {"nt", "posix"}

\* What subprocess.check_output can do with a ping command line:
\*   "output"  exit status 0, non-empty output returned
\*   "empty"   exit status 0, empty output returned
\*   "nonzero" non-zero exit status: raises CalledProcessError
\*   "oserror" the command cannot be located or executed: raises
\*             FileNotFoundError (an OSError)
CmdOutcomes == {"output", "empty", "nonzero", "oserror"}

\* Addresses a caller passes to ping(address).
Addresses == {"8.8.8.8", "example.invalid"}

printed(text) == [kind |-> "print", data |-> <<text>>]
ran(argv) == [kind |-> "exec", data |-> argv]

\* The exception check_output raises for an outcome, NoException if it returns.
check_output_raises(o) ==
    CASE o = "nonzero" -> CalledProcessError
      [] o = "oserror" -> FileNotFoundError
      [] OTHER -> NoException

\* Truthiness of the bytes check_output returns.
check_output_truthy(o) == o = "output"

Digits == <<"0", "1", "2", "3", "4", "5", "6", "7", "8", "9">>

\* "%s" applied to a non-negative int.
RECURSIVE str(_)
str(n) == IF n < 10 THEN Digits[n + 1]
          ELSE str(n \div 10) \o Digits[(n % 10) + 1]

----------------------------------------------------------------------------
(* ensure_session_active *)

ensure_session_active(a) ==
    IF ~a THEN NotStartedException ELSE NoException

----------------------------------------------------------------------------
(* start: the exception raised, the new value of active, the events *)

\* Variants of start used to test the properties below.
\* The command check placed before the platform check.
start_command_first(a, plat, o) ==
    IF a THEN
        [exc |-> NoException, active |-> a,
         log |-> <<printed("A session is already active. To quit, use NetBuddy.quit().")>>]
    ELSE IF check_output_raises(o) # NoException THEN
        [exc |-> check_output_raises(o), active |-> a,
         log |-> <<printed("Session starting..."),
                   printed("Looking for required commands..."),
                   ran(<<"ping", "/?">>)>>]
    ELSE IF ~check_output_truthy(o) THEN
        [exc |-> MissingCommandException, active |-> a,
         log |-> <<printed("Session starting..."),
                   printed("Looking for required commands..."),
                   ran(<<"ping", "/?">>)>>]
    ELSE IF plat # "nt" THEN
        [exc |-> NotWindowsException, active |-> a,
         log |-> <<printed("Session starting..."),
                   printed("Looking for required commands..."),
                   ran(<<"ping", "/?">>), printed("Checking platform...")>>]
    ELSE
        [exc |-> NoException, active |-> TRUE,
         log |-> <<printed("Session starting..."),
                   printed("Looking for required commands..."),
                   ran(<<"ping", "/?">>), printed("Checking platform..."),
                   printed("Session started. Run NetBuddy.help() for options.")>>]

\* The test of NetBuddy.active left out: the checks run on every call.
start_ungated(a, plat, o) ==
    IF plat # "nt" THEN
        [exc |-> NotWindowsException, active |-> a,
         log |-> <<printed("Session starting..."), printed("Checking platform...")>>]
    ELSE IF check_output_raises(o) # NoException THEN
        [exc |-> check_output_raises(o), active |-> a,
         log |-> <<printed("Session starting..."), printed("Checking platform..."),
                   printed("Looking for required commands..."),
                   ran(<<"ping", "/?">>)>>]
    ELSE IF ~check_output_truthy(o) THEN
        [exc |-> MissingCommandException, active |-> a,
         log |-> <<printed("Session starting..."), printed("Checking platform..."),
                   printed("Looking for required commands..."),
                   ran(<<"ping", "/?">>)>>]
    ELSE
        [exc |-> NoException, active |-> TRUE,
         log |-> <<printed("Session starting..."), printed("Checking platform..."),
                   printed("Looking for required commands..."),
                   ran(<<"ping", "/?">>),
                   printed("Session started. Run NetBuddy.help() for options.")>>]

\* NetBuddy.active set before the checks instead of after them.
start_active_first(a, plat, o) ==
    IF a THEN
        [exc |-> NoException, active |-> a,
         log |-> <<printed("A session is already active. To quit, use NetBuddy.quit().")>>]
    ELSE IF plat # "nt" THEN
        [exc |-> NotWindowsException, active |-> TRUE,
         log |-> <<printed("Session starting..."), printed("Checking platform...")>>]
    ELSE IF check_output_raises(o) # NoException THEN
        [exc |-> check_output_raises(o), active |-> TRUE,
         log |-> <<printed("Session starting..."), printed("Checking platform..."),
                   printed("Looking for required commands..."),
                   ran(<<"ping", "/?">>)>>]
    ELSE IF ~check_output_truthy(o) THEN
        [exc |-> MissingCommandException, active |-> TRUE,
         log |-> <<printed("Session starting..."), printed("Checking platform..."),
                   printed("Looking for required commands..."),
                   ran(<<"ping", "/?">>)>>]
    ELSE
        [exc |-> NoException, active |-> TRUE,
         log |-> <<printed("Session starting..."), printed("Checking platform..."),
                   printed("Looking for required commands..."),
                   ran(<<"ping", "/?">>),
                   printed("Session started. Run NetBuddy.help() for options.")>>]

start(a, plat, o) ==
    IF a THEN
        [exc |-> NoException, active |-> a,
         log |-> <<printed("A session is already active. To quit, use NetBuddy.quit().")>>]
    ELSE IF plat # "nt" THEN
        [exc |-> NotWindowsException, active |-> a,
         log |-> <<printed("Session starting..."), printed("Checking platform...")>>]
    ELSE IF check_output_raises(o) # NoException THEN
        [exc |-> check_output_raises(o), active |-> a,
         log |-> <<printed("Session starting..."), printed("Checking platform..."),
                   printed("Looking for required commands..."),
                   ran(<<"ping", "/?">>)>>]
    ELSE IF ~check_output_truthy(o) THEN
        [exc |-> MissingCommandException, active |-> a,
         log |-> <<printed("Session starting..."), printed("Checking platform..."),
                   printed("Looking for required commands..."),
                   ran(<<"ping", "/?">>)>>]
    ELSE
        [exc |-> NoException, active |-> TRUE,
         log |-> <<printed("Session starting..."), printed("Checking platform..."),
                   printed("Looking for required commands..."),
                   ran(<<"ping", "/?">>),
                   printed("Session started. Run NetBuddy.help() for options.")>>]

\* quit: the new value of active.
quit(a) == FALSE

HelpText ==
    <<
      "NetBuddy by Dylan Halladay                                                           ",
      "'NetBuddy' has been omitted from the beginning of these items for readability.       ",
      "For example, to start a session, use NetBuddy.start(), not just .start()             ",
      "All options and methods print to screen and return False upon failure                ",
      "Options: ----------------------------------------------------------------------------",
      "-- .start()                       : Start NetBuddy session, required for all methods ",
      "-- .quit()                        : Cleanly quits NetBuddy session                   ",
      "-- .help()                        : Display this screen                              ",
      "Methods: ----------------------------------------------------------------------------",
      "-- .test_connection()             : Test if your device is online (alias: test)      ",
      "-- .ping(address)                 : Ping a URL or IP address                         ",
      "-- .measure_ping()                : Measure your ping (alias: measure)               ",
      "-- .send(data, url)               : Send data to a URL or IP address                 ",
      "-- .get_my_IP                     : Get this device's IP address                     ",
      "-- .get_my_hostname               : Get this device's hostname                       ",
      "-- .get_hostname(address)         : Get the hostnames of the specified device        ",
      "-- .get_IPs                       : Get the IP of every device on this network       ",
      "-- .get_hostnames                 : Get the hostname of every device on this network ",
      "Data: -------------------------------------------------------------------------------",
      "-- .active                        = True if a session is active, otherwise False     ",
      "Exceptions: -------------------------------------------------------------------------",
      "-- .NetBuddyException             - Base class for all following exceptions          ",
      "-- .NotStartedException           - Tried to use a method before starting session    ",
      "-- .NotWindowsException           - Device platform is not Windows (unsupported)     ",
      "-- .MissingCommandException       - Required command was not found                   ",
      "How to import: ----------------------------------------------------------------------",
      "from netbuddy import NetBuddy                                                        "
    >>

RECURSIVE printed_all(_)
printed_all(lines) ==
    IF lines = <<>> THEN <<>>
    ELSE <<printed(Head(lines))>> \o printed_all(Tail(lines))

----------------------------------------------------------------------------
(* test_connection *)

test_count == 4

TARGETS == <<"www.google.com", "twitter.com", "www.python.org", "github.com">>

ProbeArgv(i) == <<"ping", "-n", "2", "-l", "32", TARGETS[i]>>

\* except CalledProcessError: the only exception a probe's try block handles.
ProbeCaught(e) == e = CalledProcessError

FailedLine(i) == "-- Test " \o str(i) \o " failed.\t(" \o TARGETS[i] \o ")"
PassedLine(i) == "-- Test " \o str(i) \o " passed.\t(" \o TARGETS[i] \o ")"

\* Variant: integer division of the count before scaling, 100*(count//total).
SuccessRate_floor_first(count, total) == 100 * (count \div total)

\* int(100*(success_count/test_count)): the quotient count/4 and its product
\* with 100 are exact in binary floating point, int() truncates.
SuccessRate(count, total) == (100 * count) \div total

SummaryLine(count, total, rate) ==
    str(count) \o "/" \o str(total) \o " tests passed (" \o str(rate) \o "%)"

\* Variant: the comparison written as success_rate >= 0.
ReturnValue_ge(rate) == IF ~(rate >= 0) THEN False ELSE None

\* if not success_rate > 0: return False; otherwise falls off the end.
ReturnValue(rate) == IF ~(rate > 0) THEN False ELSE None

\* test(): return NetBuddy.test_connection()
test(v) == v

----------------------------------------------------------------------------
(* ping(address): the body is the docstring alone *)

ping(a, address, o) ==
    [exc |-> NoException, result |-> None, log |-> <<>>]

----------------------------------------------------------------------------

Idle == pc \in {"idle", "returned", "raised"}

Init ==
    /\ active = FALSE
    /\ name \in Platforms
    /\ pc = "idle"
    /\ op = "none"
    /\ arg = ""
    /\ entry_active = FALSE
    /\ cmd = "output"
    /\ outcomes = <<>>
    /\ success_count = 0
    /\ success_rate = -1
    /\ log = <<>>
    /\ result = NoResult
    /\ exc = NoException

\* A call that runs to its end in one step.
Finish(o, r, e, l, a) ==
    /\ op' = o
    /\ arg' = ""
    /\ entry_active' = active
    /\ outcomes' = <<>>
    /\ success_count' = 0
    /\ success_rate' = -1
    /\ log' = l
    /\ active' = a
    /\ exc' = e
    /\ result' = IF e = NoException THEN r ELSE NoResult
    /\ pc' = IF e = NoException THEN "returned" ELSE "raised"
    /\ UNCHANGED name

Start ==
    /\ Idle
    /\ \E o \in CmdOutcomes :
        /\ cmd' = o
        /\ LET s == start(active, name, o)
           IN Finish("start", None, s.exc, s.log, s.active)

\* NetBuddy(): __init__ calls self.start().
Instantiate ==
    /\ Idle
    /\ \E o \in CmdOutcomes :
        /\ cmd' = o
        /\ LET s == start(active, name, o)
           IN Finish("__init__", Instance, s.exc, s.log, s.active)

Quit ==
    /\ Idle
    /\ \E o \in CmdOutcomes :
        /\ cmd' = o
        /\ Finish("quit", None, NoException, <<printed("Session ended.")>>, quit(active))

Help ==
    /\ Idle
    /\ \E o \in CmdOutcomes :
        /\ cmd' = o
        /\ Finish("help", None, NoException, printed_all(HelpText), active)

Ping ==
    /\ Idle
    /\ \E o \in CmdOutcomes, address \in Addresses :
        /\ cmd' = o
        /\ LET p == ping(active, address, o)
           IN /\ op' = "ping"
              /\ arg' = address
              /\ entry_active' = active
              /\ outcomes' = <<>>
              /\ success_count' = 0
              /\ success_rate' = -1
              /\ log' = p.log
              /\ exc' = p.exc
              /\ result' = IF p.exc = NoException THEN p.result ELSE NoResult
              /\ pc' = IF p.exc = NoException THEN "returned" ELSE "raised"
              /\ UNCHANGED <<active, name>>

\* Entry of test_connection(), called directly or through test():
\* ensure_session_active(), the two locals, the heading.
Enter(o) ==
    /\ Idle
    /\ op' = o
    /\ arg' = ""
    /\ entry_active' = active
    /\ outcomes' = <<>>
    /\ success_count' = 0
    /\ success_rate' = -1
    /\ result' = NoResult
    /\ exc' = ensure_session_active(active)
    /\ IF ensure_session_active(active) # NoException
       THEN /\ pc' = "raised"
            /\ log' = <<>>
       ELSE /\ pc' = "issue"
            /\ log' = <<printed("Running 4 tests:")>>
    /\ UNCHANGED <<active, name, cmd>>

TestConnection == Enter("test_connection")

Test == Enter("test")

\* check_output(['ping', '-n', '2', '-l', '32', target]) of the next probe:
\* the subprocess runs and the call waits for it.
IssueProbe ==
    /\ pc = "issue"
    /\ Len(outcomes) < Len(TARGETS)
    /\ \E o \in CmdOutcomes :
        /\ cmd' = o
        /\ outcomes' = Append(outcomes, o)
    /\ log' = Append(log, ran(ProbeArgv(Len(outcomes) + 1)))
    /\ pc' = "report"
    /\ UNCHANGED <<active, name, op, arg, entry_active, success_count,
                   success_rate, result, exc>>

\* The except / else branches of the probe that just finished.
ReportProbe ==
    /\ pc = "report"
    /\ LET i == Len(outcomes)
           e == check_output_raises(outcomes[i])
       IN IF e = NoException THEN
              /\ success_count' = success_count + 1
              /\ log' = Append(log, printed(PassedLine(i)))
              /\ pc' = IF i < Len(TARGETS) THEN "issue" ELSE "summary"
              /\ UNCHANGED exc
          ELSE IF ProbeCaught(e) THEN
              /\ log' = Append(log, printed(FailedLine(i)))
              /\ pc' = IF i < Len(TARGETS) THEN "issue" ELSE "summary"
              /\ UNCHANGED <<success_count, exc>>
          ELSE
              /\ exc' = e
              /\ pc' = "raised"
              /\ UNCHANGED <<success_count, log>>
    /\ UNCHANGED <<active, name, op, arg, entry_active, cmd, outcomes,
                   success_rate, result>>

\* The rate, the summary line and the return.
Summarize ==
    /\ pc = "summary"
    /\ LET rate == SuccessRate(success_count, test_count)
       IN /\ success_rate' = rate
          /\ log' = Append(log, printed(SummaryLine(success_count, test_count, rate)))
          /\ result' = IF op = "test" THEN test(ReturnValue(rate))
                       ELSE ReturnValue(rate)
    /\ pc' = "returned"
    /\ UNCHANGED <<active, name, op, arg, entry_active, cmd, outcomes,
                   success_count, exc>>

Next ==
    \/ Start
    \/ Instantiate
    \/ Quit
    \/ Help
    \/ Ping
    \/ TestConnection
    \/ Test
    \/ IssueProbe
    \/ ReportProbe
    \/ Summarize

Spec == Init /\ [][Next]_vars

----------------------------------------------------------------------------
(* Properties *)

Done == pc \in {"returned", "raised"}

IsTest == op \in {"test_connection", "test"}

Execs(l) == SelectSeq(l, LAMBDA e : e.kind = "exec")

\* Number of probes of this call that exited with status 0.
NumOk(os) == Cardinality({i \in DOMAIN os : os[i] \in {"output", "empty"}})

\* C1: a gated operation (test_connection, test, ping) called while active is
\* false fails with NotStartedException, runs no subprocess and leaves active
\* false.
C1_GatedFailsNotStarted ==
    (Done /\ op \in {"test_connection", "test", "ping"} /\ ~entry_active) =>
        /\ pc = "raised"
        /\ exc = NotStartedException
        /\ Execs(log) = <<>>
        /\ ~active

\* C2: with an active session test_connection() issues exactly 4 probes for
\* every combination of probe outcomes (success, non-zero exit, invocation
\* error) and no probe failure propagates out of it.
C2_AlwaysFourProbes ==
    (Done /\ IsTest /\ entry_active) =>
        /\ pc = "returned"
        /\ exc = NoException
        /\ Len(Execs(log)) = 4

\* C3: test_connection() returns False exactly when the computed success
\* percentage is 0; with at least one successful probe it returns a value
\* that is not False; test() returns what test_connection() returns for the
\* same probe outcomes.
C3_FalseIffRateZero ==
    (IsTest /\ pc = "returned") =>
        /\ result = False <=> success_rate = 0
        /\ NumOk(outcomes) >= 1 => result = None
        /\ NumOk(outcomes) = 0 => result = False

C3_Witness ==
    /\ op = "test"
    /\ pc = "returned"
    /\ outcomes = <<"nonzero", "nonzero", "nonzero", "nonzero">>
    /\ success_rate = 0
    /\ result = False

ExpectedSummary ==
    <<"0/4 tests passed (0%)", "1/4 tests passed (25%)", "2/4 tests passed (50%)",
      "3/4 tests passed (75%)", "4/4 tests passed (100%)">>

\* C4: the count printed in the summary is the number of probes that
\* succeeded, in 0..4, the total printed is 4 and the percentage printed is
\* 100 * count / 4 truncated (0, 25, 50, 75 or 100).
C4_SummaryLine ==
    (IsTest /\ pc = "returned") =>
        LET k == NumOk(outcomes)
        IN /\ Len(outcomes) = 4
           /\ k \in 0..4
           /\ success_count = k
           /\ success_rate \in {0, 25, 50, 75, 100}
           /\ 4 * success_rate <= 100 * k
           /\ 100 * k < 4 * (success_rate + 1)
           /\ log[Len(log)] = printed(ExpectedSummary[k + 1])

C4_Witness ==
    /\ op = "test_connection"
    /\ pc = "returned"
    /\ outcomes = <<"output", "nonzero", "output", "nonzero">>
    /\ log[Len(log)] = printed("2/4 tests passed (50%)")

\* C5: start() with active false on Windows, when the ping command cannot be
\* located or executed or returns no output, fails with
\* MissingCommandException and leaves active false.
C5_MissingCommand ==
    (Done /\ op = "start" /\ ~entry_active /\ name = "nt"
          /\ cmd \in {"oserror", "empty"}) =>
        /\ pc = "raised"
        /\ exc = MissingCommandException
        /\ ~active

\* C6: start() with active false on a platform other than Windows fails with
\* NotWindowsException whatever the ping command would do, runs no
\* subprocess and leaves active false.
C6_PlatformCheckFirst ==
    (Done /\ op \in {"start", "__init__"} /\ ~entry_active /\ name # "nt") =>
        /\ pc = "raised"
        /\ exc = NotWindowsException
        /\ exc # MissingCommandException
        /\ Execs(log) = <<>>
        /\ ~active

C6_Witness ==
    /\ op = "start"
    /\ pc = "raised"
    /\ ~entry_active
    /\ name = "posix"
    /\ cmd = "oserror"
    /\ exc = NotWindowsException

\* C7: start() called while active is true raises nothing, runs no check and
\* no subprocess, prints the already-active notice alone and leaves active
\* true; a further start() right after it leaves the state as it is.
C7_StartIdempotent ==
    /\ [](  (Done /\ op = "start" /\ entry_active) =>
             /\ pc = "returned"
             /\ exc = NoException
             /\ active
             /\ log = <<printed("A session is already active. To quit, use NetBuddy.quit().")>>)
    /\ [][ (Done /\ op = "start" /\ entry_active /\ op' = "start") =>
             <<active, name, pc, op, arg, entry_active, outcomes, success_count,
               success_rate, log, result, exc>>'
             = <<active, name, pc, op, arg, entry_active, outcomes, success_count,
                 success_rate, log, result, exc>> ]_vars

C7_Witness ==
    /\ op = "start"
    /\ pc = "returned"
    /\ entry_active
    /\ active
    /\ cmd = "oserror"

\* C8: active is false initially; it becomes true only in a start() or an
\* instantiation whose platform check and command check passed; it becomes
\* false only in quit(), which always ends with active false and raises
\* nothing; help(), test_connection(), test() and ping() leave it alone.
C8_ActiveLifecycle ==
    /\ ~active
    /\ [][ /\ (~active /\ active') =>
                /\ op' \in {"start", "__init__"}
                /\ pc' = "returned"
                /\ name = "nt"
                /\ cmd' = "output"
           /\ (active /\ ~active') => op' = "quit"
           /\ op' = "quit" =>
                /\ ~active'
                /\ pc' = "returned"
                /\ exc' = NoException
           /\ op' \in {"help", "test_connection", "test", "ping"} =>
                active' = active ]_vars

C8_Witness ==
    /\ op = "quit"
    /\ pc = "returned"
    /\ entry_active
    /\ ~active

\* C9: ping(address) with an active session runs the ping command against
\* the address, returns the reply when the command succeeds and False when
\* it fails, and does not raise for an unreachable host.
C9_PingReplyOrFalse ==
    (Done /\ op = "ping" /\ entry_active) =>
        /\ \E i \in DOMAIN log :
              /\ log[i].kind = "exec"
              /\ log[i].data[1] = "ping"
              /\ log[i].data[Len(log[i].data)] = arg
        /\ cmd \in {"output", "empty"} => result \notin {None, False, NoResult}
        /\ cmd = "nonzero" => (pc = "returned" /\ result = False)

ExpectedLines ==
    << {"-- Test 1 passed.\t(www.google.com)", "-- Test 1 failed.\t(www.google.com)"},
       {"-- Test 2 passed.\t(twitter.com)", "-- Test 2 failed.\t(twitter.com)"},
       {"-- Test 3 passed.\t(www.python.org)", "-- Test 3 failed.\t(www.python.org)"},
       {"-- Test 4 passed.\t(github.com)", "-- Test 4 failed.\t(github.com)"} >>

ExpectedTargets ==
    <<"www.google.com", "twitter.com", "www.python.org", "github.com">>

\* Entry j of the log of a run of test_connection(): the heading, then for
\* each target its probe followed by its line, then the summary.
WellPlaced(j) ==
    IF j = 1 THEN log[j] = printed("Running 4 tests:")
    ELSE IF j = 10 THEN log[j].kind = "print" /\ log[j].data[1] \in
                            {ExpectedSummary[k] : k \in DOMAIN ExpectedSummary}
    ELSE IF j % 2 = 0 THEN log[j] = ran(<<"ping", "-n", "2", "-l", "32",
                                          ExpectedTargets[j \div 2]>>)
    ELSE log[j].kind = "print" /\ log[j].data[1] \in ExpectedLines[j \div 2]

\* C10: in every run of test_connection() with an active session the probes
\* are issued one after the other in the order www.google.com, twitter.com,
\* www.python.org, github.com, the line of target i is printed after probe i
\* and before probe i+1, each target gets exactly one line and the summary
\* is printed after the four lines.
C10_SequentialReport ==
    (IsTest /\ entry_active) =>
        /\ Len(log) <= 10
        /\ \A j \in DOMAIN log : WellPlaced(j)
        /\ Done => \A i \in 1..4 :
                     Cardinality({j \in DOMAIN log :
                        log[j].kind = "print" /\ log[j].data[1] \in ExpectedLines[i]}) = 1

====
